---- MODULE Spec2Model ----
(***************************************************************************)
(* The run orchestrator of app/app.py: the session registry SESSIONS, the  *)
(* /upload, /start and /stop handlers, the worker processes they spawn     *)
(* and the completion monitors they leave behind.                          *)
(*                                                                         *)
(* Handlers run on request threads of the threaded server and monitors on  *)
(* daemon threads; they share the entry dictionaries without any lock, so  *)
(* every statement that reads or writes shared state is one atomic step,   *)
(* and steps of different threads interleave freely.  Purely local         *)
(* statements are folded into the shared step that precedes them.          *)
(*                                                                         *)
(* app.py line 142 reads `entry = SESSIONS.get[sid]`.  As written this     *)
(* subscripts the bound method dict.get and raises TypeError on every      *)
(* start request that names a known session.  Two specifications are       *)
(* given: SpecAsWritten takes the line literally; Spec reads it as the     *)
(* subscript SESSIONS[sid] that stop_test uses at line 290, which is the   *)
(* only reading under which a run ever starts.                             *)
(***************************************************************************)
EXTENDS Integers, Sequences, FiniteSets, TLC

\* ------------------------------------------------------------------ bounds
MaxTime == 2
MaxRequests == 2
MaxProcs == 2
MaxClientRequests == 2
MaxClientProcs == 3
MaxTotal == 10
MaxParts == 8
MaxRows == 3
MaxSplitRows == 2
MaxHostRequests == 1
MaxWriterRows == 2

\* -------------------------------------------------------- program constants
\* Python's None for a handle or a timestamp.  time.time() is a positive
\* epoch value and handles are numbered from 1, so 0 is free to stand for
\* None, and is falsy like None in `if p:` and `if entry["ended_at"]`.
None == 0
\* `IS_VERCEL`: the demo switch, off in a deployment that runs JMeter.
IS_VERCEL == FALSE

Threads == {"t1", "t2"}
\* One session id that /upload can hand out and one that it never does.
Sids == {"s1"}
UnknownSid == "s0"

SIGTERM == -15
SIGKILL == -9
\* Exit statuses a worker can end with on its own.
OwnExitCodes == {0, 1}

Terminal == {"finished", "error", "stopped"}

VARIABLES
  now,        \* time.time()
  SESSIONS,   \* the keys of the registry
  entry,      \* the entry dictionaries, by session id (they outlive the key)
  procs,      \* every Popen object created, by handle
  monitors,   \* the monitor threads started, in order of creation
  th,         \* the request threads: position, request, locals, response
  nreq,       \* requests accepted so far
  termWrites, \* per session: terminal statuses written since it last became running
  qry,        \* the thread of GET /status: position, locals, last response
  files,      \* the result streams on disk, by name: the rows csv.reader yields
  ret,        \* the last call of a helper or parser method: arguments and value
  pending     \* the record a worker has written in part, <<>> when none

vars == <<now, SESSIONS, entry, procs, monitors, th, nreq, termWrites,
          qry, files, ret, pending>>

\* The state the orchestration steps leave alone.
aux == <<qry, files, ret, pending>>

\* ------------------------------------------------------------ request inputs
Item(h, ok) == [host |-> h, ok |-> ok]

StartInput(mode, rh, dm, sm, tps, thr) ==
  [mode |-> mode, remote_hosts |-> rh, dist_mode |-> dm, split_method |-> sm,
   per_host_tps |-> tps, per_host_threads |-> thr]

\* The JSON bodies of the start requests explored.  A missing key is its
\* default (mode "sanity", dist_mode "replicate", split_method "tps", lists
\* empty); remote_hosts is the comma-separated string, by token.
StartInputs ==
  { StartInput("sanity", <<>>, "replicate", "tps", <<>>, <<>>),
    StartInput("bogus", <<>>, "replicate", "tps", <<>>, <<>>),
    StartInput("distributed", <<"">>, "replicate", "tps", <<>>, <<>>),
    StartInput("distributed", <<"h1", "h2">>, "replicate", "tps", <<>>, <<>>),
    StartInput("distributed", <<"h1", "", "h2">>, "split_equal", "tps",
               <<Item("h1", TRUE), Item("h2", TRUE)>>, <<>>),
    StartInput("distributed", <<"h1", "h2">>, "split_equal", "threads",
               <<>>, <<Item("h1", TRUE)>>),
    StartInput("distributed", <<"h1">>, "bogus", "threads",
               <<>>, <<Item("h1", TRUE)>>),
    StartInput("distributed", <<"h1", "h2">>, "split_equal", "tps",
               <<Item("h1", TRUE), Item("h2", FALSE)>>, <<>>) }

NoInput == StartInput("", <<>>, "", "", <<>>, <<>>)

\* hosts = [h.strip() for h in rh.split(",") if h.strip()]
ParseHosts(rh) == SelectSeq(rh, LAMBDA h : h # "")

\* f"result-{host}.jtl"
HostJtl(host) == "result-" \o host \o ".jtl"

\* The per-host list the split branch reads: per_host_tps for "tps",
\* per_host_threads for anything else.
PerList(inp) ==
  IF inp.split_method = "tps" THEN inp.per_host_tps ELSE inp.per_host_threads

\* ------------------------------------------------------------------- state
NewEntry ==
  [status |-> "uploaded", proc |-> None, procs |-> <<>>,
   started_at |-> None, ended_at |-> None, jtls |-> <<"result.jtl">>,
   mode |-> "sanity", dist_mode |-> "None", split_method |-> "absent"]

IdleThread ==
  [pc |-> "idle", kind |-> "none", sid |-> UnknownSid, inp |-> NoInput,
   lprocs |-> <<>>, ljtls |-> <<>>, split |-> FALSE, i |-> 1,
   resp |-> "", code |-> 0,
   seen |-> "", wrote |-> {}, issuedAt |-> None,
   raised |-> FALSE, signalled |-> {}]

\* The response of GET /status: HTTP status, and status and elapsed_s of the
\* body (the metric fields of the body are those of status_totals below).
StatusResp(code, st, el) == [code |-> code, status |-> st, elapsed_s |-> el]

NoResp == StatusResp(0, "", 0)

IdleQuery ==
  [pc |-> "idle", sid |-> UnknownSid, st |-> "", elapsed |-> 0, resp |-> NoResp]

NoRet == [op |-> "none"]

\* The registry is empty and no request is being handled.
InitRegistry ==
  /\ now = 1
  /\ SESSIONS = {}
  /\ entry = << >>
  /\ procs = << >>
  /\ monitors = << >>
  /\ th = [t \in Threads |-> IdleThread]
  /\ nreq = 0
  /\ termWrites = << >>
  /\ qry = IdleQuery

Init ==
  /\ InitRegistry
  /\ files = << >>
  /\ ret = NoRet
  /\ pending = << >>

\* The handles an entry records: procs when it is a non-empty list, else proc.
Handles(e) ==
  IF e.procs # <<>> THEN {e.procs[k] : k \in DOMAIN e.procs}
  ELSE IF e.proc # None THEN {e.proc} ELSE {}

Range(s) == {s[k] : k \in DOMAIN s}

Exited(p) == ~procs[p].alive


\* ----------------------------------------------------------------- helpers
\* The handler returns: jsonify(...) with an HTTP status, or an exception
\* that Flask turns into a 500.
Respond(r, resp, code) == [r EXCEPT !.pc = "done", !.resp = resp, !.code = code]

\* subprocess.Popen(cmd, ...): a new live process writing to file jtl.
Popen(s, jtl) ==
  [sid |-> s, jtl |-> jtl, alive |-> TRUE, code |-> None, sigterm |-> FALSE]

\* Verdict with any() for all(): one clean exit makes the run finished.
VerdictAny(codes) == IF \E c \in codes : c = 0 THEN "finished" ELSE "error"

\* The status a monitor writes for the exit statuses it collected.
Verdict(codes) == IF \A c \in codes : c = 0 THEN "finished" ELSE "error"

\* No response is waiting to be sent.  Sending it touches nothing shared, so
\* it is taken as the very next step after the handler's last statement.
Quiet == \A t \in Threads : th[t].pc # "done"

\* ------------------------------------------------------------------- clock
Tick ==
  /\ Quiet
  /\ now < MaxTime
  /\ now' = now + 1
  /\ UNCHANGED <<SESSIONS, entry, procs, monitors, th, nreq, termWrites>>
  /\ UNCHANGED aux

\* ------------------------------------------------------------------ upload
upload_jmx(s) ==
  /\ Quiet
  /\ s \notin DOMAIN entry
  /\ SESSIONS' = SESSIONS \cup {s}
  /\ entry' = (s :> NewEntry) @@ entry
  /\ termWrites' = (s :> 0) @@ termWrites
  /\ UNCHANGED <<now, procs, monitors, th, nreq>>
  /\ UNCHANGED aux

\* -------------------------------------------------------- request dispatch
\* The workers a start request can launch: one in the single-engine and
\* replicate branches, one per item of the per-host list in the split branch.
MaxSpawn(inp) ==
  IF inp.mode = "sanity" THEN 1
  ELSE IF inp.mode # "distributed" \/ ParseHosts(inp.remote_hosts) = <<>> THEN 0
  ELSE IF inp.dist_mode = "replicate" THEN 1
  ELSE IF Len(PerList(inp)) # Len(ParseHosts(inp.remote_hosts)) THEN 0
  ELSE Len(PerList(inp))

\* The workers the request in progress on thread t may still launch.
ToSpawn(t) ==
  IF th[t].pc \in {"start_139", "start_143", "start_151", "start_182",
                   "start_212", "spawn_single"}
  THEN MaxSpawn(th[t].inp)
  ELSE IF th[t].pc = "spawn_split" THEN Len(PerList(th[t].inp)) - th[t].i + 1
  ELSE 0

\* A free request thread takes the next POST /start or POST /stop.  Free
\* threads are interchangeable, so t2 is used only while t1 is busy.  The
\* requests explored are at most MaxRequests and launch at most MaxProcs
\* workers between them.
Accept(t) ==
  /\ Quiet
  /\ th[t].pc = "idle"
  /\ t = "t1" \/ th["t1"].pc # "idle"
  /\ nreq < MaxRequests
  /\ \/ \E s \in Sids \cup {UnknownSid}, inp \in StartInputs :
          /\ Len(procs) + ToSpawn("t1") + ToSpawn("t2") + MaxSpawn(inp) <= MaxProcs
          /\ th' = [th EXCEPT ![t] =
               [IdleThread EXCEPT !.pc = "start_139", !.kind = "start",
                                  !.sid = s, !.inp = inp]]
     \/ \E s \in Sids \cup {UnknownSid} :
          th' = [th EXCEPT ![t] =
               [IdleThread EXCEPT !.pc = "stop_287", !.kind = "stop", !.sid = s]]
  /\ nreq' = nreq + 1
  /\ UNCHANGED <<now, SESSIONS, entry, procs, monitors, termWrites>>
  /\ UNCHANGED aux

\* The response has been sent: the thread is free again.
Return(t) ==
  /\ th[t].pc = "done"
  /\ th' = [th EXCEPT ![t] = IdleThread]
  /\ UNCHANGED <<now, SESSIONS, entry, procs, monitors, nreq, termWrites>>
  /\ UNCHANGED aux

\* -------------------------------------------------------------- start_test
\* 132-142: demo mode, `if not sid or sid not in SESSIONS`, and the lookup of
\* 142 read as entry = SESSIONS[sid], which finds the entry the check found
\* (no session is deleted in the runs explored).
start_test_check_session(t) ==
  /\ Quiet
  /\ th[t].pc = "start_139"
  /\ th' = [th EXCEPT ![t] =
       IF IS_VERCEL THEN Respond(@, "started (demo mode)", 200)
       ELSE IF th[t].sid \notin SESSIONS THEN Respond(@, "Invalid session", 400)
       ELSE [@ EXCEPT !.pc = "start_143"]]
  /\ UNCHANGED <<now, SESSIONS, entry, procs, monitors, nreq, termWrites>>
  /\ UNCHANGED aux

\* 132-142 with 142 as written, entry = SESSIONS.get[sid]: the subscript of
\* a bound method raises TypeError for every session the check at 139 lets
\* through.
start_test_check_session_as_written(t) ==
  /\ Quiet
  /\ th[t].pc = "start_139"
  /\ th' = [th EXCEPT ![t] =
       IF IS_VERCEL THEN Respond(@, "started (demo mode)", 200)
       ELSE IF th[t].sid \notin SESSIONS THEN Respond(@, "Invalid session", 400)
       ELSE Respond(@, "TypeError", 500)]
  /\ UNCHANGED <<now, SESSIONS, entry, procs, monitors, nreq, termWrites>>
  /\ UNCHANGED aux

\* start_test_check_running with the early return lost: the status is read
\* and the handler goes on whatever it is.
start_test_check_running_always_starts(t) ==
  /\ Quiet
  /\ th[t].pc = "start_143"
  /\ th' = [th EXCEPT ![t].seen = entry[th[t].sid].status, ![t].pc = "start_151"]
  /\ UNCHANGED <<now, SESSIONS, entry, procs, monitors, nreq, termWrites>>
  /\ UNCHANGED aux

\* 143-144: `if entry["status"] == "running"`.
start_test_check_running(t) ==
  /\ Quiet
  /\ th[t].pc = "start_143"
  /\ LET st == entry[th[t].sid].status IN
     th' = [th EXCEPT ![t] =
       IF st = "running"
       THEN Respond([@ EXCEPT !.seen = st], "Already running", 200)
       ELSE [@ EXCEPT !.seen = st, !.pc = "start_151"]]
  /\ UNCHANGED <<now, SESSIONS, entry, procs, monitors, nreq, termWrites>>
  /\ UNCHANGED aux

\* Where the handler goes after entry["mode"] = mode (154, 175-179, 280).
AfterMode(r) ==
  IF r.inp.mode = "sanity"
  THEN [r EXCEPT !.pc = "spawn_single", !.ljtls = <<"result.jtl">>]
  ELSE IF r.inp.mode = "distributed"
  THEN IF ParseHosts(r.inp.remote_hosts) = <<>>
       THEN Respond(r, "Provide remote_hosts", 400)
       ELSE [r EXCEPT !.pc = "start_182"]
  ELSE Respond(r, "Unknown mode", 400)

\* 150-151: mode = data.get("mode", "sanity"); entry["mode"] = mode.
start_test_set_mode(t) ==
  /\ Quiet
  /\ th[t].pc = "start_151"
  /\ LET s == th[t].sid
         v == th[t].inp.mode IN
     /\ entry' = [entry EXCEPT ![s].mode = v]
     /\ th' = [th EXCEPT ![t] =
          AfterMode([@ EXCEPT !.wrote =
             IF entry[s].mode = v THEN @ ELSE @ \cup {"mode"}])]
  /\ UNCHANGED <<now, SESSIONS, procs, monitors, nreq, termWrites>>
  /\ UNCHANGED aux

\* Where the handler goes after entry["dist_mode"] = dist_mode (185, 210):
\* "replicate" is the replicate branch, every other value the split one.
AfterDistMode(r) ==
  IF r.inp.dist_mode = "replicate"
  THEN [r EXCEPT !.pc = "spawn_single", !.ljtls = <<"result-combined.jtl">>]
  ELSE [r EXCEPT !.pc = "start_212"]

\* 181-182: dist_mode = data.get("dist_mode", "replicate"); entry["dist_mode"] = dist_mode.
start_test_set_dist_mode(t) ==
  /\ Quiet
  /\ th[t].pc = "start_182"
  /\ LET s == th[t].sid
         v == th[t].inp.dist_mode IN
     /\ entry' = [entry EXCEPT ![s].dist_mode = v]
     /\ th' = [th EXCEPT ![t] =
          AfterDistMode([@ EXCEPT !.wrote =
             IF entry[s].dist_mode = v THEN @ ELSE @ \cup {"dist_mode"}])]
  /\ UNCHANGED <<now, SESSIONS, procs, monitors, nreq, termWrites>>
  /\ UNCHANGED aux

\* Where the handler goes after entry["split_method"] = split_method
\* (214-217, 236-239): the length check of the per-host list.
AfterSplitMethod(r) ==
  IF Len(PerList(r.inp)) # Len(ParseHosts(r.inp.remote_hosts))
  THEN Respond(r, IF r.inp.split_method = "tps"
                  THEN "remote_hosts/per_host_tps mismatch"
                  ELSE "remote_hosts/per_host_threads mismatch", 400)
  ELSE [r EXCEPT !.pc = "spawn_split", !.split = TRUE, !.i = 1]

\* 211-212: split_method = data.get("split_method", "tps"); entry["split_method"] = split_method.
start_test_set_split_method(t) ==
  /\ Quiet
  /\ th[t].pc = "start_212"
  /\ LET s == th[t].sid
         v == th[t].inp.split_method IN
     /\ entry' = [entry EXCEPT ![s].split_method = v]
     /\ th' = [th EXCEPT ![t] =
          AfterSplitMethod([@ EXCEPT !.wrote =
             IF entry[s].split_method = v THEN @ ELSE @ \cup {"split_method"}])]
  /\ UNCHANGED <<now, SESSIONS, procs, monitors, nreq, termWrites>>
  /\ UNCHANGED aux

\* 155-158 and 186-194: touch the one result file and launch the one worker.
start_test_spawn_single(t) ==
  /\ Quiet
  /\ th[t].pc = "spawn_single"
  /\ procs' = Append(procs, Popen(th[t].sid, th[t].ljtls[1]))
  /\ th' = [th EXCEPT ![t].lprocs = <<Len(procs) + 1>>, ![t].pc = "set_proc"]
  /\ UNCHANGED <<now, SESSIONS, entry, monitors, nreq, termWrites>>
  /\ UNCHANGED aux

\* 221-234 and 249-263, one turn of `for item in per`: int(item[...]) raises
\* ValueError on a value that is no number; otherwise a worker is launched
\* on result-{host}.jtl and appended to the local lists.
start_test_spawn_split(t) ==
  /\ Quiet
  /\ th[t].pc = "spawn_split"
  /\ LET item == PerList(th[t].inp)[th[t].i]
         last == th[t].i = Len(PerList(th[t].inp)) IN
     IF ~item.ok
     THEN /\ th' = [th EXCEPT ![t] = Respond(@, "ValueError", 500)]
          /\ UNCHANGED procs
     ELSE /\ procs' = Append(procs, Popen(th[t].sid, HostJtl(item.host)))
          /\ th' = [th EXCEPT ![t].lprocs = Append(@, Len(procs) + 1),
                              ![t].ljtls = Append(@, HostJtl(item.host)),
                              ![t].i = @ + 1,
                              ![t].pc = IF last THEN "set_proc" ELSE "spawn_split"]
  /\ UNCHANGED <<now, SESSIONS, entry, monitors, nreq, termWrites>>
  /\ UNCHANGED aux

\* 159, 195, 265: entry["proc"] = proc (None in the split branch).
start_test_set_proc(t) ==
  /\ Quiet
  /\ th[t].pc = "set_proc"
  /\ LET s == th[t].sid
         v == IF th[t].split THEN None ELSE th[t].lprocs[1] IN
     /\ entry' = [entry EXCEPT ![s].proc = v]
     /\ th' = [th EXCEPT ![t].pc = "set_procs",
                         ![t].wrote = IF entry[s].proc = v THEN @ ELSE @ \cup {"proc"}]
  /\ UNCHANGED <<now, SESSIONS, procs, monitors, nreq, termWrites>>
  /\ UNCHANGED aux

\* 160, 196, 266: entry["procs"] = None, or the list in the split branch.
start_test_set_procs(t) ==
  /\ Quiet
  /\ th[t].pc = "set_procs"
  /\ LET s == th[t].sid
         v == IF th[t].split THEN th[t].lprocs ELSE <<>> IN
     /\ entry' = [entry EXCEPT ![s].procs = v]
     /\ th' = [th EXCEPT ![t].pc = "set_jtls",
                         ![t].wrote = IF entry[s].procs = v THEN @ ELSE @ \cup {"procs"}]
  /\ UNCHANGED <<now, SESSIONS, procs, monitors, nreq, termWrites>>
  /\ UNCHANGED aux

\* 161, 197, 267: entry["jtls"] = the names of the result files.
start_test_set_jtls(t) ==
  /\ Quiet
  /\ th[t].pc = "set_jtls"
  /\ LET s == th[t].sid
         v == th[t].ljtls IN
     /\ entry' = [entry EXCEPT ![s].jtls = v]
     /\ th' = [th EXCEPT ![t].pc = "set_status",
                         ![t].wrote = IF entry[s].jtls = v THEN @ ELSE @ \cup {"jtls"}]
  /\ UNCHANGED <<now, SESSIONS, procs, monitors, nreq, termWrites>>
  /\ UNCHANGED aux

\* 162, 198, 268: entry["status"] = "running".
start_test_set_status(t) ==
  /\ Quiet
  /\ th[t].pc = "set_status"
  /\ LET s == th[t].sid IN
     /\ entry' = [entry EXCEPT ![s].status = "running"]
     /\ termWrites' = [termWrites EXCEPT ![s] = 0]
     /\ th' = [th EXCEPT ![t].pc = "set_started",
                         ![t].wrote = IF entry[s].status = "running" THEN @
                                      ELSE @ \cup {"status"}]
  /\ UNCHANGED <<now, SESSIONS, procs, monitors, nreq>>
  /\ UNCHANGED aux

\* 163, 199, 269: entry["started_at"] = time.time().
start_test_set_started(t) ==
  /\ Quiet
  /\ th[t].pc = "set_started"
  /\ LET s == th[t].sid IN
     /\ entry' = [entry EXCEPT ![s].started_at = now]
     /\ th' = [th EXCEPT ![t].pc = "set_ended",
                         ![t].wrote = IF entry[s].started_at = now THEN @
                                      ELSE @ \cup {"started_at"}]
  /\ UNCHANGED <<now, SESSIONS, procs, monitors, nreq, termWrites>>
  /\ UNCHANGED aux

\* 164, 200, 270: entry["ended_at"] = None.
start_test_set_ended(t) ==
  /\ Quiet
  /\ th[t].pc = "set_ended"
  /\ LET s == th[t].sid IN
     /\ entry' = [entry EXCEPT ![s].ended_at = None]
     /\ th' = [th EXCEPT ![t].pc = "start_monitor",
                         ![t].wrote = IF entry[s].ended_at = None THEN @
                                      ELSE @ \cup {"ended_at"}]
  /\ UNCHANGED <<now, SESSIONS, procs, monitors, nreq, termWrites>>
  /\ UNCHANGED aux

\* 171-172, 207-208, 277-278: threading.Thread(target=_monitor...).start(),
\* the closure holding the handler's own proc or procs, and the response.
start_test_start_monitor(t) ==
  /\ Quiet
  /\ th[t].pc = "start_monitor"
  /\ monitors' = Append(monitors,
       [sid |-> th[t].sid, procs |-> th[t].lprocs, pc |-> "wait"])
  /\ th' = [th EXCEPT ![t] = Respond(@, "started", 200)]
  /\ UNCHANGED <<now, SESSIONS, entry, procs, nreq, termWrites>>
  /\ UNCHANGED aux


\* --------------------------------------------------------------- stop_test
\* 287-290: `if not sid or sid not in SESSIONS`, and entry = SESSIONS[sid].
stop_test_check_session(t) ==
  /\ Quiet
  /\ th[t].pc = "stop_287"
  /\ th' = [th EXCEPT ![t] =
       IF th[t].sid \notin SESSIONS THEN Respond(@, "Invalid session", 400)
       ELSE [@ EXCEPT !.pc = "stop_291"]]
  /\ UNCHANGED <<now, SESSIONS, entry, procs, monitors, nreq, termWrites>>
  /\ UNCHANGED aux

\* 291-294: status = entry.get("status"); `if status != "running"`.
stop_test_check_status(t) ==
  /\ Quiet
  /\ th[t].pc = "stop_291"
  /\ LET st == entry[th[t].sid].status IN
     th' = [th EXCEPT ![t] =
       IF st # "running"
       THEN Respond([@ EXCEPT !.seen = st], "Not running", 200)
       ELSE [@ EXCEPT !.seen = st, !.pc = "stop_296"]]
  /\ UNCHANGED <<now, SESSIONS, entry, procs, monitors, nreq, termWrites>>
  /\ UNCHANGED aux

\* 296: entry["status"] = "stopping".
stop_test_set_stopping(t) ==
  /\ Quiet
  /\ th[t].pc = "stop_296"
  /\ LET s == th[t].sid IN
     /\ entry' = [entry EXCEPT ![s].status = "stopping"]
     /\ th' = [th EXCEPT ![t].pc = "stop_298", ![t].issuedAt = now,
                         ![t].wrote = IF entry[s].status = "stopping" THEN @
                                      ELSE @ \cup {"status"}]
  /\ UNCHANGED <<now, SESSIONS, procs, monitors, nreq, termWrites>>
  /\ UNCHANGED aux

\* 298-299: procs = entry.get("procs"); `if procs:`.
stop_test_read_procs(t) ==
  /\ Quiet
  /\ th[t].pc = "stop_298"
  /\ LET ps == entry[th[t].sid].procs IN
     th' = [th EXCEPT ![t] =
       IF ps # <<>> THEN [@ EXCEPT !.lprocs = ps, !.i = 1, !.pc = "stop_terminate"]
       ELSE [@ EXCEPT !.pc = "stop_310"]]
  /\ UNCHANGED <<now, SESSIONS, entry, procs, monitors, nreq, termWrites>>
  /\ UNCHANGED aux

\* 310-311: p = entry.get("proc"); `if p:`.
stop_test_read_proc(t) ==
  /\ Quiet
  /\ th[t].pc = "stop_310"
  /\ LET p == entry[th[t].sid].proc IN
     th' = [th EXCEPT ![t] =
       IF p # None THEN [@ EXCEPT !.lprocs = <<p>>, !.i = 1, !.pc = "stop_terminate"]
       ELSE [@ EXCEPT !.pc = "stop_321"]]
  /\ UNCHANGED <<now, SESSIONS, entry, procs, monitors, nreq, termWrites>>
  /\ UNCHANGED aux

\* The loop of 300 moves to its next worker, or the handler to 321.
NextWorker(r) ==
  IF r.i < Len(r.lprocs) THEN [r EXCEPT !.i = @ + 1, !.pc = "stop_terminate"]
  ELSE [r EXCEPT !.pc = "stop_321"]

\* stop_test_terminate without the try/except around it: an exception of
\* terminate() leaves the handler.
stop_test_terminate_unguarded(t) ==
  /\ Quiet
  /\ th[t].pc = "stop_terminate"
  /\ LET p == th[t].lprocs[th[t].i] IN
     \/ /\ procs' = [procs EXCEPT ![p].sigterm = @ \/ procs[p].alive]
        /\ th' = [th EXCEPT ![t].signalled = @ \cup {p}, ![t].pc = "stop_wait"]
     \/ /\ procs[p].alive
        /\ th' = [th EXCEPT ![t] =
             Respond([@ EXCEPT !.signalled = @ \cup {p}, !.raised = TRUE],
                     "PermissionError", 500)]
        /\ UNCHANGED procs
  /\ UNCHANGED <<now, SESSIONS, entry, monitors, nreq, termWrites>>
  /\ UNCHANGED aux

\* 302, 313: p.terminate().  It is a no-op on a process that has exited;
\* on a live one it delivers SIGTERM, or raises, and then `except Exception:
\* pass` (307, 318) ends the turn for this worker.
stop_test_terminate(t) ==
  /\ Quiet
  /\ th[t].pc = "stop_terminate"
  /\ LET p == th[t].lprocs[th[t].i] IN
     \/ /\ procs' = [procs EXCEPT ![p].sigterm = @ \/ procs[p].alive]
        /\ th' = [th EXCEPT ![t].signalled = @ \cup {p}, ![t].pc = "stop_wait"]
     \/ /\ procs[p].alive
        /\ th' = [th EXCEPT ![t] =
             NextWorker([@ EXCEPT !.signalled = @ \cup {p}, !.raised = TRUE])]
        /\ UNCHANGED procs
  /\ UNCHANGED <<now, SESSIONS, entry, monitors, nreq, termWrites>>
  /\ UNCHANGED aux

\* 304, 315: p.wait(timeout=5) returns: the worker has exited.
stop_test_wait(t) ==
  /\ Quiet
  /\ th[t].pc = "stop_wait"
  /\ Exited(th[t].lprocs[th[t].i])
  /\ th' = [th EXCEPT ![t] = NextWorker(@)]
  /\ UNCHANGED <<now, SESSIONS, entry, procs, monitors, nreq, termWrites>>
  /\ UNCHANGED aux

\* 305-308, 316-319: the wait timed out on a live worker, so p.kill(): the
\* worker dies of SIGKILL, or kill() raises and the outer except swallows it.
stop_test_kill(t) ==
  /\ Quiet
  /\ th[t].pc = "stop_wait"
  /\ LET p == th[t].lprocs[th[t].i] IN
     /\ procs[p].alive
     /\ \/ /\ procs' = [procs EXCEPT ![p].alive = FALSE, ![p].code = SIGKILL]
           /\ th' = [th EXCEPT ![t] = NextWorker(@)]
        \/ /\ th' = [th EXCEPT ![t] = NextWorker([@ EXCEPT !.raised = TRUE])]
           /\ UNCHANGED procs
  /\ UNCHANGED <<now, SESSIONS, entry, monitors, nreq, termWrites>>
  /\ UNCHANGED aux

\* stop_test_set_ended with the time taken when the stop was issued.
stop_test_set_ended_at_issue(t) ==
  /\ Quiet
  /\ th[t].pc = "stop_321"
  /\ LET s == th[t].sid IN
     /\ entry' = [entry EXCEPT ![s].ended_at = th[t].issuedAt]
     /\ th' = [th EXCEPT ![t].pc = "stop_322",
                         ![t].wrote = IF entry[s].ended_at = th[t].issuedAt THEN @
                                      ELSE @ \cup {"ended_at"}]
  /\ UNCHANGED <<now, SESSIONS, procs, monitors, nreq, termWrites>>
  /\ UNCHANGED aux

\* 321: entry["ended_at"] = time.time().
stop_test_set_ended(t) ==
  /\ Quiet
  /\ th[t].pc = "stop_321"
  /\ LET s == th[t].sid IN
     /\ entry' = [entry EXCEPT ![s].ended_at = now]
     /\ th' = [th EXCEPT ![t].pc = "stop_322",
                         ![t].wrote = IF entry[s].ended_at = now THEN @
                                      ELSE @ \cup {"ended_at"}]
  /\ UNCHANGED <<now, SESSIONS, procs, monitors, nreq, termWrites>>
  /\ UNCHANGED aux

\* 322-323: entry["status"] = "stopped", and the response.
stop_test_set_stopped(t) ==
  /\ Quiet
  /\ th[t].pc = "stop_322"
  /\ LET s == th[t].sid IN
     /\ entry' = [entry EXCEPT ![s].status = "stopped"]
     /\ termWrites' = [termWrites EXCEPT ![s] = @ + 1]
     /\ th' = [th EXCEPT ![t] = Respond(@, "stopping", 200)]
  /\ UNCHANGED <<now, SESSIONS, procs, monitors, nreq>>
  /\ UNCHANGED aux

\* ----------------------------------------------------------------- workers
\* A worker process ends: with an exit status of its own, or of SIGTERM once
\* terminate() has reached it.
worker_exit(p) ==
  /\ Quiet
  /\ procs[p].alive
  /\ \E c \in OwnExitCodes \cup (IF procs[p].sigterm THEN {SIGTERM} ELSE {}) :
       procs' = [procs EXCEPT ![p].alive = FALSE, ![p].code = c]
  /\ UNCHANGED <<now, SESSIONS, entry, monitors, th, nreq, termWrites>>
  /\ UNCHANGED aux

\* ---------------------------------------------------------------- monitors
\* 167-168, 203-204, 273-274: code = proc.wait(), or codes = [p.wait() for p
\* in procs], has returned for every worker of the closure, and
\* entry["status"] = "finished" if all are 0 else "error".
monitor_status(m) ==
  /\ Quiet
  /\ monitors[m].pc = "wait"
  /\ \A p \in Range(monitors[m].procs) : Exited(p)
  /\ LET s == monitors[m].sid IN
     /\ entry' = [entry EXCEPT ![s].status =
          Verdict({procs[p].code : p \in Range(monitors[m].procs)})]
     /\ termWrites' = [termWrites EXCEPT ![s] = @ + 1]
  /\ monitors' = [monitors EXCEPT ![m].pc = "ended"]
  /\ UNCHANGED <<now, SESSIONS, procs, th, nreq>>
  /\ UNCHANGED aux

\* 169, 205, 275: entry["ended_at"] = time.time().
monitor_ended(m) ==
  /\ Quiet
  /\ monitors[m].pc = "ended"
  /\ entry' = [entry EXCEPT ![monitors[m].sid].ended_at = now]
  /\ monitors' = [monitors EXCEPT ![m].pc = "done"]
  /\ UNCHANGED <<now, SESSIONS, procs, th, nreq, termWrites>>
  /\ UNCHANGED aux

\* ---------------------------------------------------------- specifications
\* The steps both readings of line 142 share.
Common ==
  \/ Tick
  \/ \E s \in Sids : upload_jmx(s)
  \/ \E t \in Threads : Accept(t)
  \/ \E t \in Threads : stop_test_check_session(t)
  \/ \E t \in Threads : stop_test_check_status(t)

Next ==
  \/ \E t \in Threads : Return(t)
  \/ Common
  \/ \E t \in Threads : start_test_check_session(t)
  \/ \E t \in Threads : start_test_check_running(t)
  \/ \E t \in Threads : start_test_set_mode(t)
  \/ \E t \in Threads : start_test_set_dist_mode(t)
  \/ \E t \in Threads : start_test_set_split_method(t)
  \/ \E t \in Threads : start_test_spawn_single(t)
  \/ \E t \in Threads : start_test_spawn_split(t)
  \/ \E t \in Threads : start_test_set_proc(t)
  \/ \E t \in Threads : start_test_set_procs(t)
  \/ \E t \in Threads : start_test_set_jtls(t)
  \/ \E t \in Threads : start_test_set_status(t)
  \/ \E t \in Threads : start_test_set_started(t)
  \/ \E t \in Threads : start_test_set_ended(t)
  \/ \E t \in Threads : start_test_start_monitor(t)
  \/ \E t \in Threads : stop_test_set_stopping(t)
  \/ \E t \in Threads : stop_test_read_procs(t)
  \/ \E t \in Threads : stop_test_read_proc(t)
  \/ \E t \in Threads : stop_test_terminate(t)
  \/ \E t \in Threads : stop_test_wait(t)
  \/ \E t \in Threads : stop_test_kill(t)
  \/ \E t \in Threads : stop_test_set_ended(t)
  \/ \E t \in Threads : stop_test_set_stopped(t)
  \/ \E p \in DOMAIN procs : worker_exit(p)
  \/ \E m \in DOMAIN monitors : monitor_status(m)
  \/ \E m \in DOMAIN monitors : monitor_ended(m)

Spec == Init /\ [][Next]_vars

NextAsWritten ==
  \/ \E t \in Threads : Return(t)
  \/ Common
  \/ \E t \in Threads : start_test_check_session_as_written(t)

SpecAsWritten == Init /\ [][NextAsWritten]_vars

\* ------------------------------------------------------------------ status
\* The state of the orchestration, which GET /status only reads.
registry == <<now, SESSIONS, entry, procs, monitors, th, nreq, termWrites>>

\* 340-342: entry = SESSIONS.get(sid); `if not entry` answers 404.
status_lookup(s) ==
  /\ Quiet
  /\ qry.pc = "idle"
  /\ th["t1"].pc = "idle"
  /\ qry' = IF s \in SESSIONS
            THEN [qry EXCEPT !.pc = "status_369", !.sid = s]
            ELSE [qry EXCEPT !.sid = s, !.resp = StatusResp(404, "", 0)]
  /\ UNCHANGED <<registry, files, ret, pending>>

\* 369: entry["status"] is read for the choice of the elapsed time.
status_read_status ==
  /\ Quiet
  /\ qry.pc = "status_369"
  /\ qry' = [qry EXCEPT !.pc = "status_370", !.st = entry[qry.sid].status]
  /\ UNCHANGED <<registry, files, ret, pending>>

\* 370, 372: int(ended_at - started_at) if ended_at is set, else 0, for a
\* terminal status; int(time.time() - started_at) if started_at is set, else
\* 0, for any other.  ended_at - None raises TypeError.
status_elapsed ==
  /\ Quiet
  /\ qry.pc = "status_370"
  /\ LET e == entry[qry.sid] IN
     qry' =
       IF qry.st \in Terminal
       THEN IF e.ended_at = None THEN [qry EXCEPT !.pc = "status_375", !.elapsed = 0]
            ELSE IF e.started_at = None
                 THEN [qry EXCEPT !.pc = "idle", !.resp = StatusResp(500, "", 0)]
                 ELSE [qry EXCEPT !.pc = "status_375",
                                  !.elapsed = e.ended_at - e.started_at]
       ELSE [qry EXCEPT !.pc = "status_375",
                        !.elapsed = IF e.started_at = None THEN 0
                                    ELSE now - e.started_at]
  /\ UNCHANGED <<registry, files, ret, pending>>

\* 374-385: the body is built, entry["status"] read once more, and sent.
status_respond ==
  /\ Quiet
  /\ qry.pc = "status_375"
  /\ qry' = [qry EXCEPT !.pc = "idle",
                        !.resp = StatusResp(200, entry[qry.sid].status, qry.elapsed)]
  /\ UNCHANGED <<registry, files, ret, pending>>

\* The start requests of the client below: a single-engine run and a split
\* run on two hosts.
ClientInputs ==
  { StartInput("sanity", <<>>, "replicate", "tps", <<>>, <<>>),
    StartInput("distributed", <<"h1", "h2">>, "split_equal", "tps",
               <<Item("h1", TRUE), Item("h2", TRUE)>>, <<>>) }

\* One client that waits for each response before its next request: POST
\* /start and POST /stop are taken by t1 while no status query is open.
AcceptClient ==
  /\ Quiet
  /\ th["t1"].pc = "idle"
  /\ qry.pc = "idle"
  /\ nreq < MaxClientRequests
  /\ \/ \E inp \in ClientInputs :
          /\ Len(procs) + MaxSpawn(inp) <= MaxClientProcs
          /\ th' = [th EXCEPT !["t1"] =
               [IdleThread EXCEPT !.pc = "start_139", !.kind = "start",
                                  !.sid = "s1", !.inp = inp]]
     \/ th' = [th EXCEPT !["t1"] =
               [IdleThread EXCEPT !.pc = "stop_287", !.kind = "stop", !.sid = "s1"]]
  /\ nreq' = nreq + 1
  /\ UNCHANGED <<now, SESSIONS, entry, procs, monitors, termWrites>>
  /\ UNCHANGED aux

NextClient ==
  \/ \E t \in Threads : Return(t)
  \/ Tick
  \/ \E s \in Sids : upload_jmx(s)
  \/ AcceptClient
  \/ \E s \in Sids \cup {UnknownSid} : status_lookup(s)
  \/ status_read_status
  \/ status_elapsed
  \/ status_respond
  \/ \E t \in Threads : start_test_check_session(t)
  \/ \E t \in Threads : start_test_check_running(t)
  \/ \E t \in Threads : start_test_set_mode(t)
  \/ \E t \in Threads : start_test_set_dist_mode(t)
  \/ \E t \in Threads : start_test_set_split_method(t)
  \/ \E t \in Threads : start_test_spawn_single(t)
  \/ \E t \in Threads : start_test_spawn_split(t)
  \/ \E t \in Threads : start_test_set_proc(t)
  \/ \E t \in Threads : start_test_set_procs(t)
  \/ \E t \in Threads : start_test_set_jtls(t)
  \/ \E t \in Threads : start_test_set_status(t)
  \/ \E t \in Threads : start_test_set_started(t)
  \/ \E t \in Threads : start_test_set_ended(t)
  \/ \E t \in Threads : start_test_start_monitor(t)
  \/ \E t \in Threads : stop_test_check_session(t)
  \/ \E t \in Threads : stop_test_check_status(t)
  \/ \E t \in Threads : stop_test_set_stopping(t)
  \/ \E t \in Threads : stop_test_read_procs(t)
  \/ \E t \in Threads : stop_test_read_proc(t)
  \/ \E t \in Threads : stop_test_terminate(t)
  \/ \E t \in Threads : stop_test_wait(t)
  \/ \E t \in Threads : stop_test_kill(t)
  \/ \E t \in Threads : stop_test_set_ended(t)
  \/ \E t \in Threads : stop_test_set_stopped(t)
  \/ \E p \in DOMAIN procs : worker_exit(p)
  \/ \E m \in DOMAIN monitors : monitor_status(m)
  \/ \E m \in DOMAIN monitors : monitor_ended(m)

SpecClient == Init /\ [][NextClient]_vars

\* ------------------------------------------------------------ _equal_split
\* _equal_split with `i <= rem` for `i < rem`.
EqualSplitOffByOne(total, n) ==
  IF n <= 0 THEN <<>>
  ELSE LET base == total \div n
           rem == total % n
       IN [k \in 1..n |-> base + (IF k - 1 <= rem THEN 1 ELSE 0)]

\* 47-53: base = total // n; rem = total % n;
\* [base + (1 if i < rem else 0) for i in range(n)], i from 0.
_equal_split(total, n) ==
  IF n <= 0 THEN <<>>
  ELSE LET base == total \div n
           rem == total % n
       IN [k \in 1..n |-> base + (IF k - 1 < rem THEN 1 ELSE 0)]

\* A caller splits total among n participants.
call_equal_split(total, n) ==
  /\ ret' = [op |-> "_equal_split", total |-> total, n |-> n,
             value |-> _equal_split(total, n)]
  /\ UNCHANGED <<registry, qry, files, pending>>

NextSplit == \E total \in -2..MaxTotal, n \in -2..MaxParts : call_equal_split(total, n)

SpecSplit == Init /\ [][NextSplit]_vars

\* ------------------------------------------------------------------ parser
\* A stream is the sequence of rows csv.reader yields for its file: a row is
\* the tuple of the fields of a line, the empty tuple for an empty line.
TS_IDX == 0
ELAPSED_IDX == 1
LABEL_IDX == 2
RESP_CODE_IDX == 3
SUCCESS_IDX == 7
BYTES_IDX == 9
ALL_THREADS_IDX == 12

\* r[idx] of the source, whose indices start at 0.
Field(r, idx) == r[idx + 1]

\* A result record as JMeter writes it (17 columns, of which the first 13
\* are kept here), and the rows the streams explored are made of.
Sample(ts, elapsed, label, code, success, bytes, threads) ==
  <<ts, elapsed, label, code, "OK", "Thread 1-1", "text", success, "", bytes,
    "10", "1", threads>>

BlankRow == <<>>
HeaderRow == Sample("timeStamp", "elapsed", "label", "responseCode", "success",
                    "bytes", "allThreads")
LowerHeaderRow == Sample("timestamp", "elapsed", "label", "responseCode",
                         "success", "bytes", "allThreads")
OkRow == Sample("1000", "100", "Login", "200", "true", "50", "5")
TrimRow == Sample("1500", "200", "Logout", "500", " TRUE ", " 50 ", "3")
FailRow == Sample("2000", "301", "home", "404", "false", "x", "2")
ShortRow == <<"2500", "50", "Login">>
BadTsRow == Sample("x", "100", "Login", "200", "true", "50", "5")

Rows ==
  {BlankRow, HeaderRow, LowerHeaderRow, OkRow, TrimRow, FailRow, ShortRow,
   BadTsRow}

\* str.lower() on the strings that occur in the rows and filters explored.
Lower(x) ==
  CASE x = "timeStamp" -> "timestamp"
    [] x = "TRUE" -> "true"
    [] x = " TRUE " -> " true "
    [] x = "Login" -> "login"
    [] x = "Logout" -> "logout"
    [] x = "LOG" -> "log"
    [] OTHER -> x

\* str.strip() on the same strings.
Strip(x) ==
  CASE x = " TRUE " -> "TRUE"
    [] x = " true " -> "true"
    [] x = " 50 " -> "50"
    [] OTHER -> x

\* `needle in hay` for the lower-cased filters and labels explored.
Contains(hay, needle) ==
  \/ needle = ""
  \/ needle = hay
  \/ needle = "log" /\ hay \in {"login", "logout"}
  \/ needle = "o" /\ hay \in {"login", "logout", "home"}

\* The strings int() accepts, with their values.
IntStrings ==
  [x \in {"0", "2", "3", "5", "50", "100", "200", "301", "500", "1000", "1500",
          "2000", "2500"} |->
     CASE x = "0" -> 0 [] x = "2" -> 2 [] x = "3" -> 3 [] x = "5" -> 5
       [] x = "50" -> 50 [] x = "100" -> 100 [] x = "200" -> 200
       [] x = "301" -> 301 [] x = "500" -> 500 [] x = "1000" -> 1000
       [] x = "1500" -> 1500 [] x = "2000" -> 2000 [] x = "2500" -> 2500]

\* 23-28: int(str(s).strip()), or default when int() raises.
_to_int(x, default) ==
  IF Strip(x) \in DOMAIN IntStrings THEN IntStrings[Strip(x)] ELSE default

\* _is_header without .lower(): only JMeter's own spelling is a header.
IsHeaderExact(row) == row # <<>> /\ Field(row, TS_IDX) = "timeStamp"

\* 39-41: bool(row) and row[TS_IDX].lower() == "timestamp".
_is_header(row) == row # <<>> /\ Lower(Field(row, TS_IDX)) = "timestamp"

\* 71-75: the file does not exist or has size 0.
_file_empty(path) == path \notin DOMAIN files \/ files[path] = <<>>

\* 97-100, 168-170, 230-233: the rows that are neither empty nor a header.
DataRows(path) == SelectSeq(files[path], LAMBDA r : r # <<>> /\ ~_is_header(r))

Max(a, b) == IF a >= b THEN a ELSE b

\* The first n elements of q: what a window that stops filling would keep.
FirstRows(q, n) == IF Len(q) <= n THEN q ELSE SubSeq(q, 1, n)

\* The last n elements of q.
LastRows(q, n) == IF Len(q) <= n THEN q ELSE SubSeq(q, Len(q) - n + 1, Len(q))

\* The integer nearest to num / den, for den > 0, a tie going to the even one.
RoundDiv(num, den) ==
  LET q == num \div den
      r == num - q * den
  IN IF 2 * r > den \/ (2 * r = den /\ q % 2 = 1) THEN q + 1 ELSE q

\* round(num / den, 2) in hundredths.
Round2(num, den) == RoundDiv(100 * num, den)

\* Passed without .strip().
PassedUntrimmed(r) == Len(r) > SUCCESS_IDX /\ Lower(Field(r, SUCCESS_IDX)) = "true"

\* 118, 181, 242: the success test of a record.
Passed(r) == Len(r) > SUCCESS_IDX /\ Lower(Strip(Field(r, SUCCESS_IDX))) = "true"

RECURSIVE CountPassed(_), SumField(_, _)
CountPassed(q) ==
  IF q = <<>> THEN 0 ELSE (IF Passed(q[1]) THEN 1 ELSE 0) + CountPassed(Tail(q))

\* 121-125, 185-190: the sum of _to_int(r[idx], 0) over the rows that have
\* the field.
SumField(q, idx) ==
  IF q = <<>> THEN 0
  ELSE (IF Len(q[1]) > idx THEN _to_int(Field(q[1], idx), 0) ELSE 0)
       + SumField(Tail(q), idx)

\* 60-69.  The float fields are in hundredths.
_zero_metrics ==
  [hits_sec |-> 0, passed |-> 0, failed |-> 0, active_threads |-> 0,
   avg_resp_ms |-> 0, throughput_bps |-> 0, errors |-> 0]

\* 80-145.
tail_metrics(path, window) ==
  IF _file_empty(path) THEN _zero_metrics
  ELSE LET rows == LastRows(DataRows(path), Max(1, window)) IN
       IF rows = <<>> THEN _zero_metrics
       ELSE LET total == Len(rows)
                first_ts == _to_int(Field(rows[1], TS_IDX), 0)
                last_ts == _to_int(Field(rows[total], TS_IDX), 0)
                dur_ms == Max(1000, last_ts - first_ts)
                passed == CountPassed(rows)
                bytes_sum == SumField(rows, BYTES_IDX)
                elapsed_sum == SumField(rows, ELAPSED_IDX)
                failed == Max(0, total - passed)
            IN [hits_sec |-> Round2(total * 1000, dur_ms),
                passed |-> passed,
                failed |-> failed,
                active_threads |->
                  IF Len(rows[total]) > ALL_THREADS_IDX
                  THEN _to_int(Field(rows[total], ALL_THREADS_IDX), 0) ELSE 0,
                avg_resp_ms |-> Round2(elapsed_sum, Max(1, total)),
                throughput_bps |-> Round2(bytes_sum * 1000, dur_ms),
                errors |-> failed]

\* 174-178: the first and last timestamps summary keeps.  A timestamp that
\* int() rejects is skipped while no first one is known and is 0 afterwards.
RECURSIVE SummaryTs(_, _)
SummaryTs(q, acc) ==
  IF q = <<>> THEN acc
  ELSE LET x == Field(q[1], TS_IDX)
           ok == Strip(x) \in DOMAIN IntStrings
       IN SummaryTs(Tail(q),
            IF ~acc.known /\ ~ok THEN acc
            ELSE [known |-> TRUE,
                  first_ts |-> IF acc.known THEN acc.first_ts ELSE _to_int(x, 0),
                  last_ts |-> _to_int(x, 0)])

\* 147-216.  The float fields are in hundredths.
summary(path) ==
  IF _file_empty(path)
  THEN [samples |-> 0, passed |-> 0, failed |-> 0, avg_resp_ms |-> 0,
        throughput_bps |-> 0]
  ELSE LET rows == DataRows(path)
           total == Len(rows)
           passed == CountPassed(rows)
           ts == SummaryTs(rows, [known |-> FALSE, first_ts |-> 0, last_ts |-> 0])
           dur_ms == Max(1000, ts.last_ts - ts.first_ts)
       IN [samples |-> total,
           passed |-> passed,
           failed |-> Max(0, total - passed),
           avg_resp_ms |-> Round2(SumField(rows, ELAPSED_IDX), Max(1, total)),
           throughput_bps |-> Round2(SumField(rows, BYTES_IDX) * 1000, dur_ms)]

\* 241-246: a record reduced to label, success, responseCode and elapsed
\* (elapsed "None" when the field is missing or not a number).
Txn(r) ==
  [label |-> IF Len(r) > LABEL_IDX THEN Field(r, LABEL_IDX) ELSE "unknown",
   success |-> Passed(r),
   responseCode |-> IF Len(r) > RESP_CODE_IDX THEN Field(r, RESP_CODE_IDX) ELSE "",
   elapsed |-> IF Len(r) > ELAPSED_IDX
               /\ Strip(Field(r, ELAPSED_IDX)) \in DOMAIN IntStrings
               THEN Field(r, ELAPSED_IDX) ELSE "None"]

RECURSIVE MapTxn(_)
MapTxn(q) == IF q = <<>> THEN <<>> ELSE <<Txn(q[1])>> \o MapTxn(Tail(q))

\* 218-253: the last max(1, limit) records, then those that match the filter
\* (no filter when label_filter is None or empty).
recent_transactions(path, limit, label_filter) ==
  IF _file_empty(path) THEN <<>>
  ELSE LET txns == MapTxn(LastRows(DataRows(path), Max(1, limit))) IN
       IF label_filter = "" THEN txns
       ELSE SelectSeq(txns, LAMBDA tx : Contains(Lower(tx.label), Lower(label_filter)))

\* The worker of a stream appends a line to it.
append_row(path, row) ==
  /\ path \in DOMAIN files
  /\ Len(files[path]) < MaxRows
  /\ files' = [files EXCEPT ![path] = Append(@, row)]
  /\ ret' = NoRet
  /\ UNCHANGED <<registry, qry, pending>>

\* app.py 156, 187, 225: jtl.touch(exist_ok=True).
touch(path) ==
  /\ path \notin DOMAIN files
  /\ files' = (path :> <<>>) @@ files
  /\ ret' = NoRet
  /\ UNCHANGED <<registry, qry, pending>>

call_tail_metrics(path, window) ==
  /\ ret' = [op |-> "tail_metrics", path |-> path, window |-> window,
             value |-> tail_metrics(path, window)]
  /\ UNCHANGED <<registry, qry, files, pending>>

\* The calls of summary on path since the stream last changed, up to 2.
Repeat(path) ==
  IF ret.op = "summary" /\ ret.path = path THEN 2 ELSE 1

\* call_summary with a summary that empties the file it has read.
call_summary_consuming(path) ==
  /\ ret' = [op |-> "summary", path |-> path, value |-> summary(path),
             calls |-> Repeat(path)]
  /\ files' = IF path \in DOMAIN files THEN [files EXCEPT ![path] = <<>>] ELSE files
  /\ UNCHANGED <<registry, qry, pending>>

call_summary(path) ==
  /\ ret' = [op |-> "summary", path |-> path, value |-> summary(path),
             calls |-> Repeat(path)]
  /\ UNCHANGED <<registry, qry, files, pending>>

call_recent_transactions(path, limit, label_filter) ==
  /\ ret' = [op |-> "recent_transactions", path |-> path, limit |-> limit,
             label_filter |-> label_filter,
             value |-> recent_transactions(path, limit, label_filter)]
  /\ UNCHANGED <<registry, qry, files, pending>>

Windows == {0, 2, 200}
Limits == {0, 2, 50}
LabelFilters == {"", "LOG", "o", "zzz"}

NextParser ==
  \/ touch("result.jtl")
  \/ \E row \in Rows : append_row("result.jtl", row)
  \/ \E w \in Windows : call_tail_metrics("result.jtl", w)
  \/ call_summary("result.jtl")
  \/ \E n \in Limits, lf \in LabelFilters :
       call_recent_transactions("result.jtl", n, lf)

SpecParser == Init /\ [][NextParser]_vars

\* ----------------------------------------------------- merge and aggregation
\* MergeFile with `break` for the `continue` of a second header: the rest of
\* the file is lost.
RECURSIVE MergeFileBreak(_, _)
MergeFileBreak(rows, acc) ==
  IF rows = <<>> THEN acc
  ELSE LET row == rows[1] IN
       IF row # <<>> /\ Field(row, 0) = "timeStamp" /\ acc.wrote_header THEN acc
       ELSE MergeFileBreak(Tail(rows),
              IF row = <<>> THEN acc
              ELSE IF Field(row, 0) = "timeStamp"
                   THEN [out |-> Append(acc.out, row), wrote_header |-> TRUE]
                   ELSE [acc EXCEPT !.out = Append(@, row)])

\* 69-77: the rows of one input file as _merge_jtls writes them, given
\* wrote_header so far: empty rows are dropped, a row whose first field is
\* "timeStamp" is written if none was and dropped otherwise.  The output is
\* given as the rows csv.reader yields for what csv.writer wrote.
RECURSIVE MergeFile(_, _)
MergeFile(rows, acc) ==
  IF rows = <<>> THEN acc
  ELSE LET row == rows[1] IN
       MergeFile(Tail(rows),
         IF row = <<>> THEN acc
         ELSE IF Field(row, 0) = "timeStamp"
              THEN IF acc.wrote_header THEN acc
                   ELSE [out |-> Append(acc.out, row), wrote_header |-> TRUE]
              ELSE [acc EXCEPT !.out = Append(@, row)])

RECURSIVE MergeAll(_, _)
MergeAll(jtls, acc) ==
  IF jtls = <<>> THEN acc
  ELSE MergeAll(Tail(jtls),
         IF _file_empty(jtls[1]) THEN acc ELSE MergeFile(files[jtls[1]], acc))

\* 56-77: the contents of out_csv after _merge_jtls(jtls, out_csv).
_merge_jtls(jtls) == MergeAll(jtls, [out |-> <<>>, wrote_header |-> FALSE]).out

\* StatusTotals with the averages of the streams added up unweighted.
RECURSIVE StatusTotalsUnweighted(_, _)
StatusTotalsUnweighted(jtls, totals) ==
  IF jtls = <<>> THEN totals
  ELSE LET metrics == tail_metrics(jtls[1], 200)
           samples == metrics.passed + metrics.failed
       IN StatusTotalsUnweighted(Tail(jtls),
            [hits_sec |-> totals.hits_sec + metrics.hits_sec,
             passed |-> totals.passed + metrics.passed,
             failed |-> totals.failed + metrics.failed,
             active_threads |-> totals.active_threads + metrics.active_threads,
             throughput_bps |-> totals.throughput_bps + metrics.throughput_bps,
             errors |-> totals.errors + metrics.errors,
             avg_resp_ms_sum |-> totals.avg_resp_ms_sum + metrics.avg_resp_ms,
             samples |-> totals.samples + samples])

\* 353-365: the totals of status over the streams of a session.
RECURSIVE StatusTotals(_, _)
StatusTotals(jtls, totals) ==
  IF jtls = <<>> THEN totals
  ELSE LET metrics == tail_metrics(jtls[1], 200)
           samples == metrics.passed + metrics.failed
       IN StatusTotals(Tail(jtls),
            [hits_sec |-> totals.hits_sec + metrics.hits_sec,
             passed |-> totals.passed + metrics.passed,
             failed |-> totals.failed + metrics.failed,
             active_threads |-> totals.active_threads + metrics.active_threads,
             throughput_bps |-> totals.throughput_bps + metrics.throughput_bps,
             errors |-> totals.errors + metrics.errors,
             avg_resp_ms_sum |-> totals.avg_resp_ms_sum
                                 + metrics.avg_resp_ms * Max(1, samples),
             samples |-> totals.samples + samples])

\* 347-383: the metric fields of the body of GET /status (floats in
\* hundredths).
status_totals(jtls) ==
  LET totals == StatusTotals(jtls,
        [hits_sec |-> 0, passed |-> 0, failed |-> 0, active_threads |-> 0,
         throughput_bps |-> 0, errors |-> 0, avg_resp_ms_sum |-> 0, samples |-> 0])
  IN [running_vusers |-> totals.active_threads,
      hits_sec |-> totals.hits_sec,
      passed_txn |-> totals.passed,
      failed_txn |-> totals.failed,
      errors |-> totals.errors,
      throughput_bps |-> totals.throughput_bps,
      avg_response_ms |-> RoundDiv(totals.avg_resp_ms_sum, Max(1, totals.samples))]

\* 449-458: the totals of download_summary over the streams of a session.
RECURSIVE SummaryTotals(_, _)
SummaryTotals(jtls, total) ==
  IF jtls = <<>> THEN total
  ELSE LET su == summary(jtls[1]) IN
       SummaryTotals(Tail(jtls),
         [samples |-> total.samples + su.samples,
          passed |-> total.passed + su.passed,
          failed |-> total.failed + su.failed,
          avg_resp_ms_sum |-> total.avg_resp_ms_sum
                              + su.avg_resp_ms * Max(1, su.samples),
          throughput_bps_sum |-> total.throughput_bps_sum + su.throughput_bps])

\* 441-472: the values of summary.csv (floats in hundredths).
download_summary(jtls) ==
  LET total == SummaryTotals(jtls,
        [samples |-> 0, passed |-> 0, failed |-> 0, avg_resp_ms_sum |-> 0,
         throughput_bps_sum |-> 0])
  IN [samples |-> total.samples,
      passed |-> total.passed,
      failed |-> total.failed,
      avg_resp_ms |-> RoundDiv(total.avg_resp_ms_sum, Max(1, total.samples)),
      throughput_bps |-> RoundDiv(total.throughput_bps_sum, Max(1, Len(jtls)))]

call_merge_jtls(jtls) ==
  /\ ret' = [op |-> "_merge_jtls", jtls |-> jtls, value |-> _merge_jtls(jtls)]
  /\ UNCHANGED <<registry, qry, files, pending>>

call_status_totals(jtls) ==
  /\ ret' = [op |-> "status", jtls |-> jtls, value |-> status_totals(jtls)]
  /\ UNCHANGED <<registry, qry, files, pending>>

call_download_summary(jtls) ==
  /\ ret' = [op |-> "download_summary", jtls |-> jtls,
             value |-> download_summary(jtls)]
  /\ UNCHANGED <<registry, qry, files, pending>>

\* The streams of a split run on two hosts, the stream lists explored, and
\* the lines their workers write.
StreamA == HostJtl("h1")
StreamB == HostJtl("h2")
NumRows(path) == IF path \in DOMAIN files THEN Len(files[path]) ELSE 0
StreamLists == {<<StreamA>>, <<StreamA, StreamB>>, <<StreamB, StreamA>>}
SplitRows == {BlankRow, HeaderRow, LowerHeaderRow, OkRow, FailRow}

NextStreams ==
  \/ \E path \in {StreamA, StreamB} : touch(path)
  \/ \E path \in {StreamA, StreamB}, row \in SplitRows :
       NumRows(path) < MaxSplitRows /\ append_row(path, row)
  \/ \E jtls \in StreamLists : call_merge_jtls(jtls)
  \/ \E jtls \in StreamLists : call_status_totals(jtls)
  \/ \E jtls \in StreamLists : call_download_summary(jtls)

SpecStreams == Init /\ [][NextStreams]_vars


\* ------------------------------------------------------------------ claims
AllowedTransitions ==
  { <<"uploaded", "running">>, <<"running", "finished">>,
    <<"running", "error">>, <<"running", "stopping">>,
    <<"stopping", "stopped">> }

ValidStart(inp) ==
  \/ inp.mode = "sanity"
  \/ /\ inp.mode = "distributed"
     /\ ParseHosts(inp.remote_hosts) # <<>>
     /\ \/ inp.dist_mode = "replicate"
        \/ /\ inp.dist_mode = "split_equal"
           /\ Len(PerList(inp)) = Len(ParseHosts(inp.remote_hosts))
           /\ \A k \in DOMAIN PerList(inp) : PerList(inp)[k].ok

\* The status a finished start handler found: the one it read at 143, or,
\* when it ended before reading it, the one the session has.
FoundStatus(t) ==
  IF th[t].seen # "" THEN th[t].seen ELSE entry[th[t].sid].status

\* C2: a start request on a known, uploaded session with valid input ends
\* with the mode's workers spawned and the session running, started_at set
\* and ended_at unset; one on an unknown session is rejected as an invalid
\* session, spawns nothing and creates or changes no session.
C2_StartRunsOrRejects ==
  \A t \in Threads :
    th[t].pc = "done" /\ th[t].kind = "start" =>
      IF th[t].sid \notin SESSIONS
      THEN /\ th[t].resp = "Invalid session" /\ th[t].code = 400
           /\ th[t].lprocs = <<>> /\ th[t].wrote = {}
           /\ th[t].sid \notin DOMAIN entry
      ELSE FoundStatus(t) = "uploaded" /\ ValidStart(th[t].inp) =>
           /\ th[t].resp = "started" /\ th[t].code = 200
           /\ Len(th[t].lprocs) = MaxSpawn(th[t].inp)
           /\ entry[th[t].sid].status = "running"
           /\ entry[th[t].sid].started_at # None
           /\ entry[th[t].sid].ended_at = None


\* Thread t takes the step.
Steps(t) == th'[t] # th[t]

Starting(s) ==
  {t \in Threads : th[t].kind = "start" /\ th[t].sid = s /\ th[t].pc # "done"
                   /\ th[t].seen \notin {"", "running"}}

OneRunOver(s) ==
  /\ Cardinality({m \in DOMAIN monitors : monitors[m].sid = s}) = 1
  /\ \A m \in DOMAIN monitors : monitors[m].sid = s => monitors[m].pc # "wait"
  /\ \A t \in Threads : th[t].sid = s => th[t].pc = "idle"

RunCodes(s) ==
  {procs[p].code : p \in UNION {Range(monitors[m].procs) :
                                  m \in {k \in DOMAIN monitors : monitors[k].sid = s}}}

\* C5: a monitor writes the status only once every worker of its run has
\* exited, and writes finished if and only if every exit status is 0 and
\* error if and only if one is not; a run that was not stopped keeps it.
C5_MonitorStep ==
  \A m \in DOMAIN monitors :
    monitors[m].pc = "wait" /\ monitors'[m].pc # "wait" =>
      LET ps == Range(monitors[m].procs)
          st == entry'[monitors[m].sid].status IN
      /\ \A p \in ps : ~procs[p].alive
      /\ st \in {"finished", "error"}
      /\ st = "finished" <=> \A p \in ps : procs[p].code = 0
      /\ st = "error" <=> \E p \in ps : procs[p].code # 0

C5_RunOutcome ==
  \A s \in DOMAIN entry :
    OneRunOver(s) /\ entry[s].status \notin {"stopping", "stopped"} =>
      /\ entry[s].status = "finished" <=> \A c \in RunCodes(s) : c = 0
      /\ entry[s].status = "error" <=> \E c \in RunCodes(s) : c # 0

Unsignalled(p) == \E t \in Threads : th[t].raised /\ p \in th[t].signalled

\* The workers of the monitor or of the stop handler that takes the step.
WritersWorkers ==
  UNION ({Range(monitors[m].procs) :
            m \in {k \in DOMAIN monitors : monitors'[k].pc # monitors[k].pc}}
         \cup {Range(th[t].lprocs) : t \in {u \in Threads : Steps(u)}})

Stopped(t) ==
  th[t].pc = "done" /\ th[t].kind = "stop" /\ th[t].seen = "running"

\* C7: when a stop request on a running session has completed the session
\* is stopped with ended_at >= started_at and none of its workers alive
\* (a worker that the handler failed to signal apart, and no start request
\* in progress), and it stays stopped (until a start request makes it
\* running again).
C7_StopCompleted ==
  \A t \in Threads :
    Stopped(t) /\ Starting(th[t].sid) = {} =>
      LET e == entry[th[t].sid] IN
      /\ e.status = "stopped"
      /\ e.ended_at # None /\ e.ended_at >= e.started_at
      /\ \A p \in Handles(e) : Exited(p) \/ Unsignalled(p)

ConfigError(inp) ==
  \/ inp.mode \notin {"sanity", "distributed"}
  \/ /\ inp.mode = "distributed"
     /\ \/ ParseHosts(inp.remote_hosts) = <<>>
        \/ inp.dist_mode \notin {"replicate", "split_equal"}
        \/ /\ inp.dist_mode = "split_equal"
           /\ Len(PerList(inp)) # Len(ParseHosts(inp.remote_hosts))

Runs(s) == {m \in DOMAIN monitors : monitors[m].sid = s}

HandleCount(e) == Cardinality(Handles(e))

RECURSIVE SumSeq(_)
SumSeq(q) == IF q = <<>> THEN 0 ELSE q[1] + SumSeq(Tail(q))

\* C13: for n > 0 and total >= 0 the split has n entries, each floor(total/n)
\* and exactly the first total mod n of them one larger, so they sum to total
\* and differ by at most 1; for n <= 0 it is empty.
C13_EqualSplit ==
  ret.op = "_equal_split" =>
    LET v == ret.value
        n == ret.n
        total == ret.total
    IN IF n <= 0 THEN v = <<>>
       ELSE total >= 0 =>
         \E q \in 0..total, r \in 0..(n - 1) :
           /\ q * n + r = total
           /\ Len(v) = n
           /\ \A k \in 1..n : v[k] = IF k <= r THEN q + 1 ELSE q
           /\ SumSeq(v) = total
           /\ \A j, k \in 1..n : v[j] - v[k] <= 1

C13_Witness ==
  /\ ret.op = "_equal_split" /\ ret.total = 7 /\ ret.n = 3
  /\ ret.value = <<3, 2, 2>>

\* The stream has no data record: it is absent, or every line of it is
\* empty or a header line.
NoData(path) ==
  path \in DOMAIN files =>
    \A k \in DOMAIN files[path] :
      files[path][k] \in {BlankRow, HeaderRow, LowerHeaderRow}

ZeroSummary ==
  [samples |-> 0, passed |-> 0, failed |-> 0, avg_resp_ms |-> 0,
   throughput_bps |-> 0]

\* C14: on a stream that is absent, empty or made of header and empty lines
\* only, tail_metrics and summary return all-zero fields and
\* recent_transactions returns the empty sequence.
C14_NoDataIsZero ==
  ret.op \in {"tail_metrics", "summary", "recent_transactions"} /\ NoData(ret.path) =>
    /\ ret.op = "tail_metrics" =>
         \A f \in DOMAIN ret.value : ret.value[f] = 0
    /\ ret.op = "summary" => ret.value = ZeroSummary
    /\ ret.op = "recent_transactions" => ret.value = <<>>

C14_Witness ==
  /\ ret.op = "tail_metrics"
  /\ ret.path \in DOMAIN files
  /\ files[ret.path] = <<LowerHeaderRow, BlankRow, HeaderRow>>
  /\ ret.value.passed = 0 /\ ret.value.failed = 0

Records(path) ==
  IF path \in DOMAIN files
  THEN SelectSeq(files[path],
                 LAMBDA r : r \notin {BlankRow, HeaderRow, LowerHeaderRow})
  ELSE <<>>

\* The records a call aggregates: the last max(1, window) for tail_metrics,
\* all of them for summary.
Aggregated ==
  IF ret.op = "summary" THEN Records(ret.path)
  ELSE LET q == Records(ret.path)
           w == IF ret.window < 1 THEN 1 ELSE ret.window
       IN [k \in 1..(IF Len(q) < w THEN Len(q) ELSE w) |->
             q[k + Len(q) - (IF Len(q) < w THEN Len(q) ELSE w)]]

\* The record has a success field (the eighth) that reads true.
SuccessIsTrue(r) == Len(r) >= 8 /\ r[8] \in {"true", "TRUE", " TRUE ", " true "}

\* C16: a record counts as passed iff its success field, trimmed and in any
\* case, is "true"; a record too short to have the field counts as failed;
\* passed + failed is the number of records aggregated, and errors = failed.
C16_PassedIffSuccessTrue ==
  ret.op \in {"tail_metrics", "summary"} =>
    LET q == Aggregated
        v == ret.value
    IN /\ v.passed = Cardinality({k \in DOMAIN q : SuccessIsTrue(q[k])})
       /\ v.failed = Cardinality({k \in DOMAIN q : ~SuccessIsTrue(q[k])})
       /\ v.passed + v.failed = Len(q)
       /\ ret.op = "tail_metrics" => v.errors = v.failed
       /\ ret.op = "summary" => v.samples = Len(q)

C16_Witness ==
  /\ ret.op = "tail_metrics" /\ ret.window = 2
  /\ ret.path \in DOMAIN files
  /\ files[ret.path] = <<OkRow, TrimRow, ShortRow>>
  /\ ret.value.passed = 1 /\ ret.value.failed = 1

\* A header line: its first field is "timestamp" in any case.
HeaderLine(r) == r # <<>> /\ r[1] \in {"timeStamp", "timestamp", "TIMESTAMP"}

\* The lines of a stream, none for an absent one.
Lines(path) == IF path \in DOMAIN files THEN files[path] ELSE <<>>

HeaderLines(q) == SelectSeq(q, HeaderLine)

\* The header lines of the streams of a list, in stream order.
RECURSIVE HeadersOf(_)
HeadersOf(jtls) ==
  IF jtls = <<>> THEN <<>>
  ELSE HeaderLines(Lines(jtls[1])) \o HeadersOf(Tail(jtls))

\* A header line of the stream, if any, is its first line.
HeaderFirst(path) ==
  \A k \in DOMAIN Lines(path) : HeaderLine(Lines(path)[k]) => k = 1

\* C17: the merged output (of streams whose header, if any, is their first
\* line) has exactly one header line when some input stream has one and
\* none otherwise; it is the header of the first stream that has one, and
\* it precedes every data row.
C17_MergeOneHeader ==
  ret.op = "_merge_jtls" /\ (\A k \in DOMAIN ret.jtls : HeaderFirst(ret.jtls[k])) =>
    LET out == ret.value
        heads == HeadersOf(ret.jtls)
    IN IF heads = <<>> THEN HeaderLines(out) = <<>>
       ELSE /\ HeaderLines(out) = <<heads[1]>>
            /\ out[1] = heads[1]

\* The data records of the streams of a list, in stream order.
RECURSIVE RecordsOf(_)
RecordsOf(jtls) ==
  IF jtls = <<>> THEN <<>> ELSE Records(jtls[1]) \o RecordsOf(Tail(jtls))

Reverse(q) == [k \in 1..Len(q) |-> q[Len(q) + 1 - k]]

\* The rows of a merged output that are data records.
DataLines(out) == SelectSeq(out, LAMBDA r : r # <<>> /\ ~HeaderLine(r))

\* C18: the data rows of the merged output are the data records of the
\* input streams, stream after stream in the order given and in file order
\* within a stream, absent and empty streams adding nothing; merging the
\* streams in the reverse order gives as many data rows and header lines.
C18_MergeLossless ==
  ret.op = "_merge_jtls" =>
    LET out == ret.value
        other == _merge_jtls(Reverse(ret.jtls))
    IN /\ DataLines(out) = RecordsOf(ret.jtls)
       /\ Len(DataLines(other)) = Len(DataLines(out))
       /\ Len(HeaderLines(other)) = Len(HeaderLines(out))

C18_Witness ==
  /\ ret.op = "_merge_jtls" /\ ret.jtls = <<StreamB, StreamA>>
  /\ StreamA \in DOMAIN files /\ StreamB \in DOMAIN files
  /\ files[StreamA] = <<HeaderRow, OkRow>>
  /\ files[StreamB] = <<HeaderRow, FailRow>>
  /\ ret.value = <<HeaderRow, FailRow, OkRow>>

\* The aggregated values of a status snapshot and of a whole-run summary
\* that are sums or averages over the records of the streams.
StatusValues(jtls) ==
  LET b == status_totals(jtls)
  IN [passed |-> b.passed_txn, failed |-> b.failed_txn,
      samples |-> b.passed_txn + b.failed_txn,
      avg_resp_ms |-> b.avg_response_ms, throughput_bps |-> b.throughput_bps]

SummaryValues(jtls) ==
  LET b == download_summary(jtls)
  IN [passed |-> b.passed, failed |-> b.failed, samples |-> b.samples,
      avg_resp_ms |-> b.avg_resp_ms, throughput_bps |-> b.throughput_bps]

\* A list of two streams, one absent or of length zero and one not; the
\* latter.
OneEmpty(jtls) ==
  /\ Len(jtls) = 2
  /\ \E k \in 1..2 : _file_empty(jtls[k]) /\ ~_file_empty(jtls[3 - k])

NonEmptyOf(jtls) == SelectSeq(jtls, LAMBDA path : ~_file_empty(path))

\* The status snapshot is neutral in empty streams.
StatusNeutral ==
  ret.op = "status" /\ OneEmpty(ret.jtls) =>
    StatusValues(ret.jtls) = StatusValues(NonEmptyOf(ret.jtls))

\* C19: for a session with two streams, one empty or absent and one not,
\* passed, failed, samples, average response time and throughput of the
\* status snapshot and of the whole-run summary are those of a session that
\* has the non-empty stream only.
C19_EmptyStreamNeutral ==
  /\ ret.op = "status" /\ OneEmpty(ret.jtls) =>
       /\ ret.value = status_totals(ret.jtls)
       /\ StatusValues(ret.jtls) = StatusValues(NonEmptyOf(ret.jtls))
  /\ ret.op = "download_summary" /\ OneEmpty(ret.jtls) =>
       /\ ret.value = download_summary(ret.jtls)
       /\ SummaryValues(ret.jtls) = SummaryValues(NonEmptyOf(ret.jtls))

Min(a, b) == IF a <= b THEN a ELSE b

\* The data records of a stream whose label contains label_filter
\* case-insensitively, all of them when no filter is given.
Matching(path, label_filter) ==
  SelectSeq(Records(path),
            LAMBDA r : label_filter = ""
                       \/ Contains(Lower(Txn(r).label), Lower(label_filter)))

\* C20: recent_transactions(limit, label_filter), for limit >= 1, returns
\* the last min(k, limit) of the k data records of the stream whose label
\* contains label_filter case-insensitively (all data records without a
\* filter), in file order, each reduced to label, success, response code and
\* elapsed; header and blank lines never appear.
C20_RecentTransactions ==
  ret.op = "recent_transactions" /\ ret.limit >= 1 =>
    LET matching == Matching(ret.path, ret.label_filter)
    IN ret.value = MapTxn(LastRows(matching, Min(Len(matching), ret.limit)))

\* The same without a filter.
RecentUnfiltered ==
  ret.op = "recent_transactions" /\ ret.limit >= 1 /\ ret.label_filter = "" =>
    ret.value = MapTxn(LastRows(Records(ret.path),
                                Min(Len(Records(ret.path)), ret.limit)))

\* The last m of the records q, for 0 <= m <= Len(q).
WindowOf(q, m) == [k \in 1..m |-> q[Len(q) - m + k]]

\* The metrics of a window of records: counts and sums over the window, the
\* duration from its first and last record floored at one second, the
\* thread count of its last record (floats in hundredths).
WindowMetrics(w) ==
  IF w = <<>> THEN _zero_metrics
  ELSE LET n == Len(w)
           dur_ms == Max(1000, _to_int(Field(w[n], TS_IDX), 0)
                               - _to_int(Field(w[1], TS_IDX), 0))
           passed == Cardinality({k \in 1..n : SuccessIsTrue(w[k])})
       IN [hits_sec |-> Round2(n * 1000, dur_ms),
           passed |-> passed,
           failed |-> n - passed,
           active_threads |-> IF Len(w[n]) > ALL_THREADS_IDX
                              THEN _to_int(Field(w[n], ALL_THREADS_IDX), 0) ELSE 0,
           avg_resp_ms |-> Round2(SumField(w, ELAPSED_IDX), n),
           throughput_bps |-> Round2(SumField(w, BYTES_IDX) * 1000, dur_ms),
           errors |-> n - passed]

Shared(m) ==
  [passed |-> m.passed, failed |-> m.failed, avg_resp_ms |-> m.avg_resp_ms,
   throughput_bps |-> m.throughput_bps]

\* C22: on a stream with no more data records than the window, summary
\* reports the passed, failed, average response time and throughput of
\* tail_metrics, with samples the record count, the average
\* sum(elapsed) / samples and the throughput
\* sum(bytes) / max(1, (last timestamp - first timestamp) / 1000), every
\* malformed numeric field read as 0.
C22_SummaryAsTailMetrics ==
  ret.op = "summary" /\ Len(Records(ret.path)) <= 200 =>
    LET recs == Records(ret.path)
    IN /\ ret.value.samples = Len(recs)
       /\ Shared(ret.value) = Shared(tail_metrics(ret.path, 200))
       /\ Shared(ret.value) = Shared(WindowMetrics(recs))

\* ------------------------------------------------- host lists of a split run
\* The start requests of one run each: single-engine, replicate, and split
\* runs whose host list and per-host list name two hosts, the same host
\* twice, or hosts that differ between the two lists (the lists need only
\* have the same length, lines 215 and 237).
HostInputs ==
  { StartInput("sanity", <<>>, "replicate", "tps", <<>>, <<>>),
    StartInput("distributed", <<"h1", "h1">>, "replicate", "tps", <<>>, <<>>),
    StartInput("distributed", <<"h1", "h2">>, "split_equal", "tps",
               <<Item("h1", TRUE), Item("h2", TRUE)>>, <<>>),
    StartInput("distributed", <<"h1", "h1">>, "split_equal", "tps",
               <<Item("h1", TRUE), Item("h1", TRUE)>>, <<>>),
    StartInput("distributed", <<"h1", "h2">>, "split_equal", "threads",
               <<>>, <<Item("h2", TRUE), Item("h2", TRUE)>>) }

\* POST /start of a client that starts at most MaxHostRequests runs.
AcceptHosts ==
  /\ Quiet
  /\ th["t1"].pc = "idle"
  /\ nreq < MaxHostRequests
  /\ \E inp \in HostInputs :
       th' = [th EXCEPT !["t1"] =
                [IdleThread EXCEPT !.pc = "start_139", !.kind = "start",
                                   !.sid = "s1", !.inp = inp]]
  /\ nreq' = nreq + 1
  /\ UNCHANGED <<now, SESSIONS, entry, procs, monitors, termWrites>>
  /\ UNCHANGED aux

NextHosts ==
  \/ \E t \in Threads : Return(t)
  \/ Tick
  \/ \E s \in Sids : upload_jmx(s)
  \/ AcceptHosts
  \/ \E t \in Threads : start_test_check_session(t)
  \/ \E t \in Threads : start_test_check_running(t)
  \/ \E t \in Threads : start_test_set_mode(t)
  \/ \E t \in Threads : start_test_set_dist_mode(t)
  \/ \E t \in Threads : start_test_set_split_method(t)
  \/ \E t \in Threads : start_test_spawn_single(t)
  \/ \E t \in Threads : start_test_spawn_split(t)
  \/ \E t \in Threads : start_test_set_proc(t)
  \/ \E t \in Threads : start_test_set_procs(t)
  \/ \E t \in Threads : start_test_set_jtls(t)
  \/ \E t \in Threads : start_test_set_status(t)
  \/ \E t \in Threads : start_test_set_started(t)
  \/ \E t \in Threads : start_test_set_ended(t)
  \/ \E t \in Threads : start_test_start_monitor(t)
  \/ \E p \in DOMAIN procs : worker_exit(p)
  \/ \E m \in DOMAIN monitors : monitor_status(m)
  \/ \E m \in DOMAIN monitors : monitor_ended(m)

SpecHosts == Init /\ [][NextHosts]_vars

RECURSIVE SumMetric(_, _), SumSamples(_), SumWeighted(_)
SumMetric(jtls, key) ==
  IF jtls = <<>> THEN 0
  ELSE tail_metrics(jtls[1], 200)[key] + SumMetric(Tail(jtls), key)

SumSamples(jtls) ==
  IF jtls = <<>> THEN 0
  ELSE LET m == tail_metrics(jtls[1], 200)
       IN m.passed + m.failed + SumSamples(Tail(jtls))

SumWeighted(jtls) ==
  IF jtls = <<>> THEN 0
  ELSE LET m == tail_metrics(jtls[1], 200)
       IN m.avg_resp_ms * (m.passed + m.failed) + SumWeighted(Tail(jtls))

\* C24: the status snapshot of a session with streams S1..Sk reports passed,
\* failed, errors, active_threads, hits/sec and throughput as the sums of the
\* streams' tail_metrics values, and the average response time as
\* sum(avg_i * samples_i) / max(1, sum(samples_i)) with
\* samples_i = passed_i + failed_i (to two decimals).
C24_StatusSums ==
  ret.op = "status" =>
    /\ ret.value.passed_txn = SumMetric(ret.jtls, "passed")
    /\ ret.value.failed_txn = SumMetric(ret.jtls, "failed")
    /\ ret.value.errors = SumMetric(ret.jtls, "errors")
    /\ ret.value.running_vusers = SumMetric(ret.jtls, "active_threads")
    /\ ret.value.hits_sec = SumMetric(ret.jtls, "hits_sec")
    /\ ret.value.throughput_bps = SumMetric(ret.jtls, "throughput_bps")
    /\ ret.value.avg_response_ms =
         RoundDiv(SumWeighted(ret.jtls), Max(1, SumSamples(ret.jtls)))

C24_Witness ==
  /\ ret.op = "status" /\ ret.jtls = <<StreamA, StreamB>>
  /\ StreamA \in DOMAIN files /\ StreamB \in DOMAIN files
  /\ files[StreamA] = <<OkRow, FailRow>>
  /\ files[StreamB] = <<OkRow>>
  /\ ret.value.passed_txn = 2 /\ ret.value.failed_txn = 1
  /\ ret.value.running_vusers = 7
  /\ ret.value.avg_response_ms = 16700

\* The workers spawned for session s that are alive.
LiveWorkers(s) == {p \in DOMAIN procs : procs[p].sid = s /\ procs[p].alive}

TerminalHasEnded ==
  \A s \in SESSIONS :
    entry[s].status \in Terminal =>
      entry[s].ended_at # None /\ entry[s].ended_at >= entry[s].started_at

WriterRows == {HeaderRow, OkRow, FailRow}
CutPoints == {3, 8}
Cut(row, k) == SubSeq(row, 1, k)

CanWrite(path, row) ==
  /\ pending = <<>>
  /\ path \in DOMAIN files
  /\ Len(files[path]) < MaxWriterRows
  /\ row = HeaderRow => files[path] = <<>>

\* The worker's buffer is flushed at the end of a line.
write_line(path, row) ==
  /\ CanWrite(path, row)
  /\ files' = [files EXCEPT ![path] = Append(@, row)]
  /\ UNCHANGED <<registry, qry, ret, pending>>

\* The buffer is flushed within a line: the file ends with a truncated line.
write_begin(path, row, k) ==
  /\ CanWrite(path, row)
  /\ files' = [files EXCEPT ![path] = Append(@, Cut(row, k))]
  /\ pending' = row
  /\ UNCHANGED <<registry, qry, ret>>

\* The rest of the line reaches the file.
write_end(path) ==
  /\ pending # <<>>
  /\ files' = [files EXCEPT ![path] = [@ EXCEPT ![Len(@)] = pending]]
  /\ pending' = <<>>
  /\ UNCHANGED <<registry, qry, ret>>

NextWriter ==
  \/ touch("result.jtl")
  \/ \E row \in WriterRows : write_line("result.jtl", row)
  \/ \E row \in WriterRows, k \in CutPoints : write_begin("result.jtl", row, k)
  \/ write_end("result.jtl")
  \/ call_summary("result.jtl")

SpecWriter == Init /\ [][NextWriter]_vars

\* The complete lines the stream holds once the line being written is whole.
Eventual(path) ==
  IF path \notin DOMAIN files THEN <<>>
  ELSE IF pending = <<>> THEN files[path]
  ELSE [files[path] EXCEPT ![Len(files[path])] = pending]

\* samples, passed and failed of a sequence of complete lines.
CountsOf(lines) ==
  LET recs == DataLines(lines)
      passed == Cardinality({k \in 1..Len(recs) : SuccessIsTrue(recs[k])})
  IN [samples |-> Len(recs), passed |-> passed, failed |-> Len(recs) - passed]

Counts(v) == [samples |-> v.samples, passed |-> v.passed, failed |-> v.failed]

\* The value last read by summary is the value of a prefix of the complete
\* lines eventually written.
ReadIsOfPrefix ==
  ret.op = "summary" =>
    \E k \in 0..Len(Eventual(ret.path)) :
      Counts(ret.value) = CountsOf(SubSeq(Eventual(ret.path), 1, k))

\* C27: while a worker appends records to a stream and a reader calls
\* summary on it, a line that is written in part at read time is not
\* miscounted: samples, passed and failed do not decrease from one read to
\* the next, and every value reported is the value of some prefix of the
\* complete records eventually written.
C27_PartialLineTolerated ==
  [][/\ ReadIsOfPrefix'
     /\ ret.op = "summary" /\ ret'.op = "summary" =>
          /\ ret'.value.samples >= ret.value.samples
          /\ ret'.value.passed >= ret.value.passed
          /\ ret'.value.failed >= ret.value.failed]_vars

\* The counts do not decrease from one read to the next.
ReadsDoNotDecrease ==
  [][ret.op = "summary" /\ ret'.op = "summary" =>
          /\ ret'.value.samples >= ret.value.samples
          /\ ret'.value.passed >= ret.value.passed
          /\ ret'.value.failed >= ret.value.failed]_vars

====
